---- MODULE Spec2Model ----
(***************************************************************************)
(* Model of the Nestera backend security core:                             *)
(*   - AuthService (register / login / validateUser / generateToken),      *)
(*   - RolesGuard.canActivate with the @Roles() decorator,                 *)
(*   - the signed webhook endpoint exercised by webhooks.e2e-spec.ts.      *)
(* AuthService methods are async: every `await` is a scheduling point, so  *)
(* a call is a small process whose steps interleave with other calls.      *)
(***************************************************************************)
EXTENDS Integers, Sequences, FiniteSets, TLC

\* ---------------------------------------------------------------- bounds
NumProcs == 2        \* concurrent in-flight requests
MaxCalls == 2        \* total number of AuthService calls in a behaviour
NumSalts == 1        \* distinct bcrypt salts
MaxRoles == 2        \* longest @Roles(...) argument list
NumBodies == 2       \* distinct webhook request bodies
NumSecrets == 2      \* distinct webhook secrets a sender may sign with

Procs == 1..NumProcs
Salts == 1..NumSalts

\* ------------------------------------------------------------ input sets
Emails    == {"a@x.com", "A@x.com"}
Passwords == {"password123", "wrongpass1"}
Names     == {"Ann"}
Kinds     == {"register", "login", "validateUser"}

\* JavaScript null / undefined
Null == [null |-> TRUE]

\* bcrypt cost factor passed by register
BcryptCost == 10

\* ------------------------------------------------------------- bcrypt
\* bcrypt.hash(plain, cost): salted digest; the digest is an opaque term
\* determined by (salt, plain).
BcryptHash(plain, salt) ==
    [alg |-> "2b", cost |-> BcryptCost, salt |-> salt, digest |-> <<salt, plain>>]

\* bcrypt.compare(plain, hash): re-hash with the salt embedded in hash.
BcryptCompare(plain, hash) ==
    hash.digest = <<hash.salt, plain>>

\* ---------------------------------------------------------- JwtService
JwtSignError ==
    [kind |-> "error", type |-> "Error",
     message |-> "secretOrPrivateKey must have a value"]

\* jwtService.sign(payload) under the process-wide secret
JwtSign(secret, payload) ==
    IF secret = "" THEN JwtSignError
    ELSE [kind |-> "token", payload |-> payload, sig |-> <<"HS256", secret, payload>>]

\* jwtService.verify(token)
JwtVerify(secret, token) ==
    /\ token.kind = "token"
    /\ secret # ""
    /\ token.sig = <<"HS256", secret, token.payload>>

\* generateToken with its two arguments swapped in the payload
generateTokenSwapped(secret, userId, email) ==
    JwtSign(secret, [sub |-> email, email |-> userId])

\* AuthService.generateToken
generateToken(secret, userId, email) ==
    JwtSign(secret, [sub |-> userId, email |-> email])

\* ---------------------------------------------------------- UserService
RECURSIVE FirstIndex(_, _, _)
FirstIndex(s, email, i) ==
    IF i > Len(s) THEN 0
    ELSE IF s[i].email = email THEN i
    ELSE FirstIndex(s, email, i + 1)

\* userService.findByEmail: exact-match lookup, null when absent
findByEmail(s, email) ==
    IF FirstIndex(s, email, 1) = 0 THEN Null ELSE s[FirstIndex(s, email, 1)]

\* error raised by the store's uniqueness constraint
StoreConflict ==
    [kind |-> "error", type |-> "QueryFailedError",
     message |-> "duplicate key value violates unique constraint"]

\* primary keys the store hands out, in order of creation
UserIds == <<"u1", "u2">>

\* the record userService.create builds from its argument
NewRecord(s, data) ==
    [id |-> UserIds[Len(s) + 1], email |-> data.email, name |-> data.name,
     password |-> data.password, role |-> "USER"]

\* ---------------------------------------------------------- AuthService
DuplicateUser ==
    [kind |-> "error", type |-> "ConflictException",
     message |-> "User already exists"]

InvalidCredentials ==
    [kind |-> "error", type |-> "UnauthorizedException",
     message |-> "Invalid credentials"]

\* `const { password, ...result } = user`
StripPassword(u) == [f \in DOMAIN u \ {"password"} |-> u[f]]

\* validateUser that skips verification when no hash is stored
validateUserLax(u, pass) ==
    IF u # Null /\ (u.password = Null \/ BcryptCompare(pass, u.password))
    THEN StripPassword(u)
    ELSE Null

\* AuthService.validateUser, given what findByEmail returned
validateUser(u, pass) ==
    IF u # Null /\ u.password # Null /\ BcryptCompare(pass, u.password)
    THEN StripPassword(u)
    ELSE Null

\* AuthService.login, given what validateUser returned
login(secret, validated) ==
    IF validated = Null THEN InvalidCredentials
    ELSE IF generateToken(secret, validated.id, validated.email).kind = "error"
         THEN generateToken(secret, validated.id, validated.email)
         ELSE [kind |-> "ok",
               accessToken |-> generateToken(secret, validated.id, validated.email)]

\* tail of AuthService.register, given what userService.create returned
registerReturn(secret, u) ==
    IF generateToken(secret, u.id, u.email).kind = "error"
    THEN generateToken(secret, u.id, u.email)
    ELSE [kind |-> "ok", user |-> u,
          accessToken |-> generateToken(secret, u.id, u.email)]

\* ------------------------------------------------------------ RolesGuard
\* enum Role
Role == {"USER", "ADMIN"}

RoleArrays == UNION {[1..k -> Role] : k \in 0..MaxRoles}

\* metadata under ROLES_KEY on a handler or a class: unset without @Roles
Unset == [set |-> FALSE, roles |-> <<>>]

\* @Roles(...roles): SetMetadata(ROLES_KEY, roles)
Roles(roles) == [set |-> TRUE, roles |-> roles]

Metadata == {Unset} \cup {Roles(r) : r \in RoleArrays}

\* request.user as the auth layer left it
RequestUsers == {Null} \cup {[role |-> r] : r \in Role}

\* reflector.getAllAndMerge: both declarations concatenated
getAllAndMerge(handlerMeta, classMeta) ==
    IF handlerMeta.set /\ classMeta.set
    THEN Roles(handlerMeta.roles \o classMeta.roles)
    ELSE IF handlerMeta.set THEN handlerMeta
    ELSE IF classMeta.set THEN classMeta
    ELSE Unset

\* reflector.getAllAndOverride(ROLES_KEY, [handler, class]):
\* the first target that carries the metadata wins
getAllAndOverride(handlerMeta, classMeta) ==
    IF handlerMeta.set THEN handlerMeta
    ELSE IF classMeta.set THEN classMeta
    ELSE Unset

Allow == [kind |-> "allow"]

Forbidden(detail) ==
    [kind |-> "error", type |-> "ForbiddenException", message |-> detail]

\* requiredRoles.every((role) => user.role === role)
hasRoleEvery(requiredRoles, u) ==
    \A i \in 1..Len(requiredRoles) : u.role = requiredRoles[i]

\* requiredRoles.some((role) => user.role === role)
hasRole(requiredRoles, u) ==
    \E i \in 1..Len(requiredRoles) : u.role = requiredRoles[i]

\* body of RolesGuard.canActivate once requiredRoles is known
checkRoles(requiredRoles, u) ==
    IF ~requiredRoles.set \/ Len(requiredRoles.roles) = 0 THEN Allow
    ELSE IF u = Null
         THEN Forbidden(<<"No authenticated user found on request.">>)
    ELSE IF ~hasRole(requiredRoles.roles, u)
         THEN Forbidden(<<"Access denied. Required role(s):", requiredRoles.roles,
                          "Your role:", u.role>>)
    ELSE Allow

\* RolesGuard.canActivate
canActivate(handlerMeta, classMeta, u) ==
    checkRoles(getAllAndOverride(handlerMeta, classMeta), u)

\* ------------------------------------------------------ webhook endpoint
Bodies  == 1..NumBodies
Secrets == 1..NumSecrets

HexChars == <<"0", "1", "2", "3", "4", "5", "6", "7",
              "8", "9", "a", "b", "c", "d", "e", "f">>

\* keyed digest of the body, one byte wide
HmacSha256(secret, body) == (secret * 97 + body * 31 + secret * body * 5) % 256

\* .digest('hex'): two lowercase hex digits per byte
Hex(byte) == <<HexChars[(byte \div 16) + 1], HexChars[(byte % 16) + 1]>>

\* signature the sender computes over the serialized payload
Sign(secret, body) == Hex(HmacSha256(secret, body))

NoHeader == [present |-> FALSE, value |-> <<>>]

Header(v) == [present |-> TRUE, value |-> v]

Headers ==
    {NoHeader} \cup {Header(<<HexChars[i], HexChars[j]>>) : i, j \in 1..16}

Accepted == [status |-> 200, body |-> <<"status", "success">>]

Unauthorized(detail) == [status |-> 401, body |-> <<"Unauthorized", detail>>]

\* verification that only runs when the header is there
verifyWebhookLax(secret, body, header) ==
    IF header.present /\ header.value # Hex(HmacSha256(secret, body))
    THEN Unauthorized("invalid signature")
    ELSE Accepted

\* POST /webhooks/stellar: verify x-stellar-signature over the raw body
verifyWebhook(secret, body, header) ==
    IF ~header.present THEN Unauthorized("missing signature")
    ELSE IF header.value # Hex(HmacSha256(secret, body))
         THEN Unauthorized("invalid signature")
    ELSE Accepted

\* ------------------------------------------------------------------ state
VARIABLES
    store,          \* user table of the store behind UserService
    jwtSecret,      \* signing secret JwtService was configured with
    pc,             \* pc[p]: where request p is in its handler
    dto,            \* dto[p]: the call's kind and arguments
    found,          \* found[p]: result of `await findByEmail`
    user,           \* user[p]: result of `await userService.create`
    result,         \* result[p]: what the call returned or threw
    calls,          \* number of calls started so far
    atCall,         \* history: what held when the call started
    did,            \* history: what the call has done
    registered,     \* history: email -> outcome of its successful register
    handlerRoles,   \* ROLES_KEY metadata of the targeted handler
    classRoles,     \* ROLES_KEY metadata of its controller class
    requestUser,    \* request.user seen by the guard
    decision,       \* what canActivate returned or threw
    webhookSecret,  \* config value stellar.webhookSecret
    rawBody,        \* body of the webhook request
    signature,      \* its x-stellar-signature header
    response        \* response of the webhook endpoint

authVars    == <<store, jwtSecret, pc, dto, found, user, result, calls, atCall,
                 did, registered>>
guardVars   == <<handlerRoles, classRoles, requestUser, decision>>
webhookVars == <<webhookSecret, rawBody, signature, response>>
vars        == <<authVars, guardVars, webhookVars>>

NoResult == [kind |-> "none"]
NoDto    == [kind |-> "none", email |-> "", password |-> "", name |-> ""]
NoHist   == [held |-> FALSE, reg |-> Null]
NoDid    == [passed |-> FALSE, created |-> FALSE, issued |-> FALSE,
             cause |-> "none"]

\* a record that exists without a password hash
SeedRecord ==
    [id |-> UserIds[1], email |-> "A@x.com", name |-> "Ann", password |-> Null,
     role |-> "USER"]

AuthInit ==
    /\ store \in {<<>>, <<SeedRecord>>}
    /\ jwtSecret \in {"", "jwt_secret"}
    /\ pc = [p \in Procs |-> "idle"]
    /\ dto = [p \in Procs |-> NoDto]
    /\ found = [p \in Procs |-> Null]
    /\ user = [p \in Procs |-> Null]
    /\ result = [p \in Procs |-> NoResult]
    /\ calls = 0
    /\ atCall = [p \in Procs |-> NoHist]
    /\ did = [p \in Procs |-> NoDid]
    /\ registered = [e \in Emails |-> Null]

\* no request has reached the guard yet
GuardInit ==
    /\ handlerRoles = Unset
    /\ classRoles = Unset
    /\ requestUser = Null
    /\ decision = NoResult

\* the webhook secret is read from configuration once, at startup
WebhookInit ==
    /\ webhookSecret \in Secrets
    /\ rawBody = 1
    /\ signature = NoHeader
    /\ response = [status |-> 0, body |-> <<>>]

Init ==
    /\ AuthInit
    /\ GuardInit
    /\ webhookSecret = 1
    /\ rawBody = 1
    /\ signature = NoHeader
    /\ response = [status |-> 0, body |-> <<>>]

\* A request arrives and the handler runs up to its first await.
Call(p) ==
    /\ pc[p] \in {"idle", "done"}
    /\ calls < MaxCalls
    /\ \E k \in Kinds, e \in Emails, pw \in Passwords, n \in Names :
         /\ dto' = [dto EXCEPT ![p] = [kind |-> k, email |-> e, password |-> pw, name |-> n]]
         /\ atCall' = [atCall EXCEPT ![p] =
                         [held |-> findByEmail(store, e) # Null,
                          reg  |-> registered[e]]]
    /\ pc' = [pc EXCEPT ![p] = "findByEmail"]
    /\ found' = [found EXCEPT ![p] = Null]
    /\ user' = [user EXCEPT ![p] = Null]
    /\ result' = [result EXCEPT ![p] = NoResult]
    /\ did' = [did EXCEPT ![p] = NoDid]
    /\ calls' = calls + 1
    /\ UNCHANGED <<store, jwtSecret, registered>>
    /\ UNCHANGED <<guardVars, webhookVars>>

\* register without the existing-user check
RegisterFindNoCheck(p) ==
    /\ pc[p] = "findByEmail"
    /\ dto[p].kind = "register"
    /\ pc' = [pc EXCEPT ![p] = "create"]
    /\ did' = [did EXCEPT ![p].passed = TRUE]
    /\ UNCHANGED <<store, jwtSecret, dto, found, user, result, calls, atCall,
                   registered>>
    /\ UNCHANGED <<guardVars, webhookVars>>

\* register: `await findByEmail` resolves; throw on an existing user
RegisterFind(p) ==
    /\ pc[p] = "findByEmail"
    /\ dto[p].kind = "register"
    /\ IF findByEmail(store, dto[p].email) # Null
       THEN /\ result' = [result EXCEPT ![p] = DuplicateUser]
            /\ pc' = [pc EXCEPT ![p] = "done"]
            /\ UNCHANGED did
       ELSE /\ pc' = [pc EXCEPT ![p] = "create"]
            /\ did' = [did EXCEPT ![p].passed = TRUE]
            /\ UNCHANGED result
    /\ UNCHANGED <<store, jwtSecret, dto, found, user, calls,
                   atCall, registered>>
    /\ UNCHANGED <<guardVars, webhookVars>>

\* register: `await bcrypt.hash(dto.password, 10)` resolves, then
\* `await userService.create({...dto, password: hashedPassword})` resolves
RegisterCreate(p) ==
    /\ pc[p] = "create"
    /\ \E salt \in Salts :
         LET hashedPassword == BcryptHash(dto[p].password, salt)
             data == [email |-> dto[p].email, name |-> dto[p].name,
                      password |-> hashedPassword]
         IN IF findByEmail(store, data.email) # Null
            THEN /\ result' = [result EXCEPT ![p] = StoreConflict]
                 /\ pc' = [pc EXCEPT ![p] = "done"]
                 /\ UNCHANGED <<store, user, did>>
            ELSE /\ store' = Append(store, NewRecord(store, data))
                 /\ user' = [user EXCEPT ![p] = NewRecord(store, data)]
                 /\ did' = [did EXCEPT ![p].created = TRUE]
                 /\ pc' = [pc EXCEPT ![p] = "return"]
                 /\ UNCHANGED result
    /\ UNCHANGED <<jwtSecret, dto, found, calls, atCall, registered>>
    /\ UNCHANGED <<guardVars, webhookVars>>

\* register: build the return value (generateToken may throw)
RegisterReturn(p) ==
    /\ pc[p] = "return"
    /\ dto[p].kind = "register"
    /\ result' = [result EXCEPT ![p] = registerReturn(jwtSecret, user[p])]
    /\ did' = [did EXCEPT ![p].issued =
                  (registerReturn(jwtSecret, user[p]).kind = "ok")]
    /\ registered' =
         IF registerReturn(jwtSecret, user[p]).kind = "ok"
         THEN [registered EXCEPT ![dto[p].email] =
                 [identity |-> user[p], password |-> dto[p].password]]
         ELSE registered
    /\ pc' = [pc EXCEPT ![p] = "done"]
    /\ user' = [user EXCEPT ![p] = Null]
    /\ UNCHANGED <<store, jwtSecret, dto, found, calls, atCall>>
    /\ UNCHANGED <<guardVars, webhookVars>>

FailCause(u, pass) ==
    IF u = Null THEN "no_record"
    ELSE IF u.password = Null THEN "no_hash"
    ELSE IF ~BcryptCompare(pass, u.password) THEN "mismatch"
    ELSE "none"

\* login / validateUser: `await findByEmail` resolves inside validateUser
ValidateFind(p) ==
    /\ pc[p] = "findByEmail"
    /\ dto[p].kind \in {"login", "validateUser"}
    /\ found' = [found EXCEPT ![p] = findByEmail(store, dto[p].email)]
    /\ pc' = [pc EXCEPT ![p] = "compare"]
    /\ UNCHANGED <<store, jwtSecret, dto, user, result, calls,
                   atCall, did, registered>>
    /\ UNCHANGED <<guardVars, webhookVars>>

\* login: validateUser finishes (bcrypt.compare) and login returns or throws
LoginFinish(p) ==
    /\ pc[p] = "compare"
    /\ dto[p].kind = "login"
    /\ result' = [result EXCEPT ![p] =
                    login(jwtSecret, validateUser(found[p], dto[p].password))]
    /\ did' = [did EXCEPT ![p] =
                 [@ EXCEPT !.cause = FailCause(found[p], dto[p].password),
                           !.issued = (result'[p].kind = "ok")]]
    /\ pc' = [pc EXCEPT ![p] = "done"]
    /\ found' = [found EXCEPT ![p] = Null]
    /\ UNCHANGED <<store, jwtSecret, dto, user, calls, atCall,
                   registered>>
    /\ UNCHANGED <<guardVars, webhookVars>>

\* validateUser called on its own: returns the stripped identity or null
ValidateFinish(p) ==
    /\ pc[p] = "compare"
    /\ dto[p].kind = "validateUser"
    /\ result' = [result EXCEPT ![p] =
                    [kind |-> "value",
                     value |-> validateUser(found[p], dto[p].password)]]
    /\ did' = [did EXCEPT ![p].cause = FailCause(found[p], dto[p].password)]
    /\ pc' = [pc EXCEPT ![p] = "done"]
    /\ found' = [found EXCEPT ![p] = Null]
    /\ UNCHANGED <<store, jwtSecret, dto, user, calls, atCall,
                   registered>>
    /\ UNCHANGED <<guardVars, webhookVars>>

Next ==
    \E p \in Procs :
        \/ Call(p)
        \/ RegisterFind(p)
        \/ RegisterCreate(p)
        \/ RegisterReturn(p)
        \/ ValidateFind(p)
        \/ LoginFinish(p)
        \/ ValidateFinish(p)

Spec == Init /\ [][Next]_vars

\* ------------------------------------------------------- guard behaviour
\* A request for a route reaches RolesGuard.
GuardRequest ==
    /\ \E h \in Metadata, c \in Metadata, u \in RequestUsers :
         /\ handlerRoles' = h
         /\ classRoles' = c
         /\ requestUser' = u
         /\ decision' = canActivate(h, c, u)
    /\ UNCHANGED <<authVars, webhookVars>>

GuardSpecInit ==
    /\ GuardInit
    /\ store = <<>>
    /\ jwtSecret = "jwt_secret"
    /\ pc = [p \in Procs |-> "idle"]
    /\ dto = [p \in Procs |-> NoDto]
    /\ found = [p \in Procs |-> Null]
    /\ user = [p \in Procs |-> Null]
    /\ result = [p \in Procs |-> NoResult]
    /\ calls = 0
    /\ atCall = [p \in Procs |-> NoHist]
    /\ did = [p \in Procs |-> NoDid]
    /\ registered = [e \in Emails |-> Null]
    /\ webhookSecret = 1
    /\ rawBody = 1
    /\ signature = NoHeader
    /\ response = [status |-> 0, body |-> <<>>]

GuardNext == GuardRequest

SpecGuard == GuardSpecInit /\ [][GuardNext]_vars

\* ----------------------------------------------------- webhook behaviour
\* A POST /webhooks/stellar request arrives.
WebhookRequest ==
    /\ \E b \in Bodies, h \in Headers :
         /\ rawBody' = b
         /\ signature' = h
         /\ response' = verifyWebhook(webhookSecret, b, h)
    /\ UNCHANGED <<webhookSecret, authVars, guardVars>>

WebhookSpecInit ==
    /\ WebhookInit
    /\ GuardInit
    /\ store = <<>>
    /\ jwtSecret = "jwt_secret"
    /\ pc = [p \in Procs |-> "idle"]
    /\ dto = [p \in Procs |-> NoDto]
    /\ found = [p \in Procs |-> Null]
    /\ user = [p \in Procs |-> Null]
    /\ result = [p \in Procs |-> NoResult]
    /\ calls = 0
    /\ atCall = [p \in Procs |-> NoHist]
    /\ did = [p \in Procs |-> NoDid]
    /\ registered = [e \in Emails |-> Null]

WebhookNext == WebhookRequest

SpecWebhook == WebhookSpecInit /\ [][WebhookNext]_vars

\* ================================================================ claims
RoleSet(roles) == {roles[i] : i \in 1..Len(roles)}

C2_WebhookSignature ==
    response.status # 0 =>
        /\ response.status = 200 =>
              /\ signature.present
              /\ signature.value = Sign(webhookSecret, rawBody)
              /\ response = Accepted
        /\ ~signature.present => response.status = 401
        /\ (signature.present /\ signature.value # Sign(webhookSecret, rawBody))
              => response.status = 401

\* a body signed under another secret is rejected
C2_Witness ==
    /\ signature.present
    /\ \E k \in Secrets \ {webhookSecret} : signature.value = Sign(k, rawBody)
    /\ response.status = 401

\* C3: login fails with one and the same InvalidCredentials error, and
\* issues no token, whether no record exists, the record has no stored
\* hash, or the password does not verify.
C3_UniformLoginFailure ==
    \A p \in Procs :
        (/\ pc[p] = "done"
         /\ dto[p].kind = "login"
         /\ did[p].cause \in {"no_record", "no_hash", "mismatch"})
        => /\ result[p] = InvalidCredentials
           /\ ~did[p].issued

\* two finished logins that failed for different reasons
C3_Witness ==
    \E p, q \in Procs :
        /\ pc[p] = "done" /\ dto[p].kind = "login" /\ did[p].cause = "no_record"
        /\ pc[q] = "done" /\ dto[q].kind = "login" /\ did[q].cause = "no_hash"
        /\ result[p] = result[q]

\* C4: no value returned to a caller contains the stored password hash:
\* the identity returned by register carries no password field and the
\* identity returned by validateUser is the record with its hash removed.
C4_NoHashReturned ==
    \A p \in Procs :
        pc[p] = "done" =>
            /\ (dto[p].kind = "register" /\ result[p].kind = "ok")
                  => "password" \notin DOMAIN result[p].user
            /\ (dto[p].kind = "validateUser" /\ result[p].value # Null)
                  => /\ "password" \notin DOMAIN result[p].value
                     /\ result[p].value =
                          StripPassword(findByEmail(store, dto[p].email))

\* C5: register for an email the store already holds fails with
\* DuplicateUser, creates no record and issues no token.
C5_DuplicateRejected ==
    \A p \in Procs :
        (dto[p].kind = "register" /\ atCall[p].held)
        => /\ ~did[p].created
           /\ ~did[p].issued
           /\ pc[p] = "done" => result[p] = DuplicateUser

\* a register call on a held email has finished
C5_Witness ==
    \E p \in Procs :
        /\ pc[p] = "done"
        /\ dto[p].kind = "register"
        /\ atCall[p].held
        /\ result[p] = DuplicateUser

RecordsFor(e) == {i \in 1..Len(store) : store[i].email = e}

\* C6: when two register calls for one email both pass the duplicate
\* check, the store ends with one record, exactly one call succeeds and
\* the other fails with DuplicateUser.
C6_RaceReportsDuplicate ==
    \A p, q \in Procs :
        (/\ p # q
         /\ jwtSecret # ""
         /\ pc[p] = "done" /\ pc[q] = "done"
         /\ dto[p].kind = "register" /\ dto[q].kind = "register"
         /\ dto[p].email = dto[q].email
         /\ did[p].passed /\ did[q].passed)
        => /\ Cardinality(RecordsFor(dto[p].email)) = 1
           /\ \/ result[p].kind = "ok" /\ result[q] = DuplicateUser
              \/ result[q].kind = "ok" /\ result[p] = DuplicateUser

\* C7: once register(email, password) has returned identity I, every
\* later login with that email and password returns a token with claims
\* sub = I.id and email = I.email, and every later login for that email
\* with another password fails with InvalidCredentials.
C7_LoginAfterRegister ==
    \A p \in Procs :
        (/\ pc[p] = "done"
         /\ dto[p].kind = "login"
         /\ atCall[p].reg # Null)
        => IF dto[p].password = atCall[p].reg.password
           THEN /\ result[p].kind = "ok"
                /\ JwtVerify(jwtSecret, result[p].accessToken)
                /\ result[p].accessToken.payload.sub = atCall[p].reg.identity.id
                /\ result[p].accessToken.payload.email = atCall[p].reg.identity.email
           ELSE result[p] = InvalidCredentials

\* a login with the registered password has succeeded
C7_Witness ==
    \E p \in Procs :
        /\ pc[p] = "done"
        /\ dto[p].kind = "login"
        /\ atCall[p].reg # Null
        /\ dto[p].password = atCall[p].reg.password
        /\ result[p].kind = "ok"

\* C8: on a route with neither a method-level nor a group-level
\* declaration, a request without an attached identity is never allowed.
C8_NoAnonymousOnUndeclared ==
    (/\ decision # NoResult
     /\ ~handlerRoles.set
     /\ ~classRoles.set
     /\ requestUser = Null)
    => decision # Allow

\* C9: with both declarations present the decision is the one for the
\* method-level declaration alone, also when that one is empty; the
\* group-level declaration decides only when no method-level one exists.
C9_MethodOverridesGroup ==
    decision # NoResult =>
        /\ handlerRoles.set => decision = checkRoles(handlerRoles, requestUser)
        /\ (~handlerRoles.set /\ classRoles.set)
              => decision = checkRoles(classRoles, requestUser)

\* an empty method-level declaration opens an ADMIN-only controller
C9_Witness ==
    /\ handlerRoles = Roles(<<>>)
    /\ classRoles = Roles(<<"ADMIN">>)
    /\ requestUser = [role |-> "USER"]
    /\ decision = Allow

\* C10: register either returns an identity and a valid token with the
\* record in the store, or fails having created no record.
C10_RegisterAllOrNothing ==
    \A p \in Procs :
        (pc[p] = "done" /\ dto[p].kind = "register")
        => \/ /\ result[p].kind = "ok"
              /\ JwtVerify(jwtSecret, result[p].accessToken)
              /\ findByEmail(store, dto[p].email) # Null
              /\ findByEmail(store, dto[p].email).id = result[p].user.id
           \/ /\ result[p].kind = "error"
              /\ ~did[p].created
====
